---- MODULE Spec2Model ----
(***************************************************************************)
(* The JBOK wallet of src/wallet.js: an array of coins (UTXO, transaction  *)
(* ID, output index), an address -> key pair map, and the operations       *)
(* balance, addUTXO, spendUTXOs, makeAddress and hasKey.                   *)
(*                                                                         *)
(* A JavaScript array is modelled as a sequence whose element 1 is the     *)
(* array's index 0.  Every call runs to completion (one action per call).  *)
(* Amounts are non-negative integers and addresses are hashes of public    *)
(* keys, as the wallet's callers supply them.                              *)
(***************************************************************************)
EXTENDS Integers, Sequences, FiniteSets, TLC

\* Bounds of the model.
MaxIngest == 3
MaxAmount == 3

\* The key pairs the external generator can produce, and the inputs of calls.
KeyIds == {1}
Outpoints == {<<"tx1", 0>>, <<"tx2", 1>>}
Amounts == 0..MaxAmount
SpendAmounts == -1..(MaxAmount + 2)

VARIABLES
  coins,        \* this.coins
  addresses,    \* this.addresses
  kp,           \* this.kp
  call,         \* history: the last call, its arguments and its outcome
  nIngested,    \* history: number of successful addUTXO calls so far
  sumIngested,  \* history: sum of the amounts of all coins ever ingested
  everSpent,    \* history: some spendUTXOs call has removed a coin
  minted,       \* history: the addresses makeAddress has returned
  timesReturned \* history: per ingestion number, how many returned spends
                \* removed that coin and listed it among their inputs

vars == <<coins, addresses, kp, call, nIngested, sumIngested, everSpent, minted, timesReturned>>

Undefined == [type |-> "undefined"]

\* ---- external collaborators (utils.js, keypair) ----
keypair(k) == [type |-> "keypair", public |-> <<"pub", k>>, private |-> <<"priv", k>>]

generateKeypair == keypair(0)

calcAddress(pub) == <<"addr", pub[2]>>

sign(priv, msg) == [signedWith |-> priv, signedMsg |-> msg]

Addresses == {calcAddress(keypair(k).public) : k \in KeyIds} \cup {<<"addr", 9>>}

\* ---- JavaScript primitives ----
\* obj[key] on a plain object
GetProp(obj, key) == IF key \in DOMAIN obj THEN obj[key] ELSE Undefined

\* obj[key] = value
SetProp(obj, key, value) ==
  [a \in (DOMAIN obj) \cup {key} |-> IF a = key THEN value ELSE obj[a]]

UnshiftWrongEnd(arr, x) == Append(arr, x)

\* Array.prototype.unshift: insert at index 0
Unshift(arr, x) == <<x>> \o arr

PopFront(arr) == Tail(arr)

PopTwo(arr) == SubSeq(arr, 1, Len(arr) - 2)

\* Array.prototype.pop: remove the last element
Pop(arr) == SubSeq(arr, 1, Len(arr) - 1)

PushNothing(arr, x) == arr

\* Array.prototype.push
Push(arr, x) == Append(arr, x)

\* !!value
Truthy(value) == value # Undefined

\* ---- Wallet ----
RECURSIVE Reduce(_, _)
Reduce(arr, acc) ==
  IF arr = << >> THEN acc
  ELSE Reduce(Tail(arr), acc + Head(arr).output.amount)

BalanceCountsCoins(cs) == Len(cs)

\* get balance()
Balance(cs) == Reduce(cs, 0)

\* hasKey(address)
hasKey(addrs, address) == Truthy(GetProp(addrs, address))

\* The input built from a popped coin (the object literal of inputs.push).
MakeInput(addrs, coin) ==
  [txID |-> coin.txID,
   outputIndex |-> coin.outputIndex,
   pubKey |-> GetProp(addrs, coin.output.address).public,
   sig |-> sign(GetProp(addrs, coin.output.address).private, coin.output)]

LoopCondIgnoresCollected(cs, collectAmount, amount) ==
  Len(cs) > 0

LoopCondInclusive(cs, collectAmount, amount) ==
  Len(cs) > 0 /\ collectAmount <= amount

LoopCondSkipsLastCoin(cs, collectAmount, amount) ==
  Len(cs) > 1 /\ collectAmount < amount

\* The condition of the while loop of spendUTXOs.
LoopCond(cs, collectAmount, amount) ==
  Len(cs) > 0 /\ collectAmount < amount

ChangeOfRemainder(changeAmount, oldestCoinAmountFromWallet, amount) ==
  changeAmount + (amount - oldestCoinAmountFromWallet)

\* changeAmount += oldestCoinAmountFromWallet - amount
ChangeOf(changeAmount, oldestCoinAmountFromWallet, amount) ==
  changeAmount + (oldestCoinAmountFromWallet - amount)

RECURSIVE SpendLoopOutstanding(_, _, _, _, _, _, _)
SpendLoopOutstanding(addrs, cs, amount, collectAmount, changeAmount, inputs, popped) ==
  IF ~LoopCond(cs, collectAmount, amount)
  THEN [threw |-> "none", coins |-> cs, inputs |-> inputs,
        changeAmt |-> changeAmount, popped |-> popped]
  ELSE
    LET coin == cs[Len(cs)]
        oldestCoinAmountFromWallet == coin.output.amount
        outstanding == amount - collectAmount
    IN
    IF GetProp(addrs, coin.output.address) = Undefined
    THEN [threw |-> "TypeError", coins |-> Pop(cs), inputs |-> inputs,
          changeAmt |-> changeAmount, popped |-> Append(popped, coin)]
    ELSE IF oldestCoinAmountFromWallet >= outstanding
    THEN [threw |-> "none", coins |-> Pop(cs),
          inputs |-> Push(inputs, MakeInput(addrs, coin)),
          changeAmt |-> ChangeOf(changeAmount, oldestCoinAmountFromWallet, outstanding),
          popped |-> Append(popped, coin)]
    ELSE SpendLoopOutstanding(addrs, Pop(cs), amount,
                   collectAmount + oldestCoinAmountFromWallet, changeAmount,
                   Push(inputs, MakeInput(addrs, coin)), Append(popped, coin))

\* The while loop of spendUTXOs.  popped is history: the coins removed so far.
RECURSIVE SpendLoop(_, _, _, _, _, _, _)
SpendLoop(addrs, cs, amount, collectAmount, changeAmount, inputs, popped) ==
  IF ~LoopCond(cs, collectAmount, amount)
  THEN [threw |-> "none", coins |-> cs, inputs |-> inputs,
        changeAmt |-> changeAmount, popped |-> popped]
  ELSE
    LET coin == cs[Len(cs)]
        oldestCoinAmountFromWallet == coin.output.amount
        missing == GetProp(addrs, coin.output.address) = Undefined
    IN
    IF missing
    THEN \* undefined.public: a TypeError after the coin was popped
         [threw |-> "TypeError", coins |-> Pop(cs), inputs |-> inputs,
          changeAmt |-> changeAmount, popped |-> Append(popped, coin)]
    ELSE IF oldestCoinAmountFromWallet > amount
    THEN [threw |-> "none", coins |-> Pop(cs),
          inputs |-> Push(inputs, MakeInput(addrs, coin)),
          changeAmt |-> ChangeOf(changeAmount, oldestCoinAmountFromWallet, amount),
          popped |-> Append(popped, coin)]
    ELSE IF oldestCoinAmountFromWallet = amount
    THEN [threw |-> "none", coins |-> Pop(cs),
          inputs |-> Push(inputs, MakeInput(addrs, coin)),
          changeAmt |-> changeAmount,
          popped |-> Append(popped, coin)]
    ELSE SpendLoop(addrs, Pop(cs), amount,
                   collectAmount + oldestCoinAmountFromWallet, changeAmount,
                   Push(inputs, MakeInput(addrs, coin)), Append(popped, coin))

SpendRejectsWholeBalance(addrs, cs, amount) ==
  IF amount >= Balance(cs)
  THEN [threw |-> "InsufficientFunds", coins |-> cs, inputs |-> << >>,
        changeAmt |-> 0, popped |-> << >>]
  ELSE SpendLoop(addrs, cs, amount, 0, 0, << >>, << >>)

\* spendUTXOs(amount), as a function of the wallet's state
Spend(addrs, cs, amount) ==
  IF amount > Balance(cs)
  THEN [threw |-> "InsufficientFunds", coins |-> cs, inputs |-> << >>,
        changeAmt |-> 0, popped |-> << >>]
  ELSE SpendLoop(addrs, cs, amount, 0, 0, << >>, << >>)

Init ==
  /\ coins = << >>
  /\ addresses = << >>
  /\ kp = generateKeypair
  /\ call = [op |-> "constructor"]
  /\ nIngested = 0
  /\ sumIngested = 0
  /\ everSpent = FALSE
  /\ minted = {}
  /\ timesReturned = [s \in 1..MaxIngest |-> 0]

\* reading wallet.balance
GetBalance ==
  /\ call' = [op |-> "balance", value |-> Balance(coins)]
  /\ UNCHANGED <<coins, addresses, kp, nIngested, sumIngested, everSpent, minted, timesReturned>>

AddUTXOChecksLate ==
  \E amount \in Amounts, address \in Addresses, outpoint \in Outpoints :
    LET utxo == [amount |-> amount, address |-> address]
        txID == outpoint[1]
        outputIndex == outpoint[2]
    IN
    /\ nIngested < MaxIngest
    /\ coins' = Unshift(coins, [output |-> utxo, txID |-> txID,
                                outputIndex |-> outputIndex,
                                seq |-> nIngested + 1])
    /\ nIngested' = nIngested + 1
    /\ sumIngested' = sumIngested + utxo.amount
    /\ call' = [op |-> "addUTXO", address |-> utxo.address,
                threw |-> IF GetProp(addresses, utxo.address) = Undefined
                          THEN "UnknownAddress" ELSE "none",
                amount |-> utxo.amount, txID |-> txID,
                outputIndex |-> outputIndex]
    /\ UNCHANGED <<addresses, kp, everSpent, minted, timesReturned>>

AddUTXONoCheck ==
  \E amount \in Amounts, address \in Addresses, outpoint \in Outpoints :
    LET utxo == [amount |-> amount, address |-> address]
        txID == outpoint[1]
        outputIndex == outpoint[2]
    IN
    /\ nIngested < MaxIngest
    /\ coins' = Unshift(coins, [output |-> utxo, txID |-> txID,
                                outputIndex |-> outputIndex,
                                seq |-> nIngested + 1])
    /\ nIngested' = nIngested + 1
    /\ sumIngested' = sumIngested + utxo.amount
    /\ call' = [op |-> "addUTXO", address |-> utxo.address,
                threw |-> "none", amount |-> utxo.amount, txID |-> txID,
                outputIndex |-> outputIndex]
    /\ UNCHANGED <<addresses, kp, everSpent, minted, timesReturned>>

\* wallet.addUTXO(utxo, txID, outputIndex)
AddUTXO ==
  \E amount \in Amounts, address \in Addresses, outpoint \in Outpoints :
    LET utxo == [amount |-> amount, address |-> address]
        txID == outpoint[1]
        outputIndex == outpoint[2]
    IN
    IF GetProp(addresses, utxo.address) = Undefined
    THEN /\ call' = [op |-> "addUTXO", address |-> utxo.address,
                     threw |-> "UnknownAddress"]
         /\ UNCHANGED <<coins, addresses, kp, nIngested, sumIngested, everSpent, minted, timesReturned>>
    ELSE /\ nIngested < MaxIngest
         /\ coins' = Unshift(coins, [output |-> utxo, txID |-> txID,
                                     outputIndex |-> outputIndex,
                                     seq |-> nIngested + 1])
         /\ nIngested' = nIngested + 1
         /\ sumIngested' = sumIngested + utxo.amount
         /\ call' = [op |-> "addUTXO", address |-> utxo.address,
                     threw |-> "none", amount |-> utxo.amount, txID |-> txID,
                     outputIndex |-> outputIndex]
         /\ UNCHANGED <<addresses, kp, everSpent, minted, timesReturned>>

SpendUTXOsDeletesKeys ==
  \E amount \in SpendAmounts \cup {Balance(coins)} :
    LET r == Spend(addresses, coins, amount)
        spentKeys == {r.popped[i].output.address : i \in 1..Len(r.popped)}
    IN
    /\ coins' = r.coins
    /\ addresses' = [a \in (DOMAIN addresses) \ spentKeys |-> addresses[a]]
    /\ call' = [op |-> "spendUTXOs", amount |-> amount, threw |-> r.threw,
                inputs |-> r.inputs, changeAmt |-> r.changeAmt,
                popped |-> r.popped]
    /\ everSpent' = (everSpent \/ r.popped # << >>)
    /\ timesReturned' =
         [s \in 1..MaxIngest |->
            timesReturned[s]
            + IF r.threw = "none"
              THEN Cardinality({i \in 1..Len(r.inputs) : r.popped[i].seq = s})
              ELSE 0]
    /\ UNCHANGED <<kp, nIngested, sumIngested, minted>>

\* wallet.spendUTXOs(amount)
SpendUTXOs ==
  \E amount \in SpendAmounts \cup {Balance(coins)} :
    LET r == Spend(addresses, coins, amount) IN
    /\ coins' = r.coins
    /\ call' = [op |-> "spendUTXOs", amount |-> amount, threw |-> r.threw,
                inputs |-> r.inputs, changeAmt |-> r.changeAmt,
                popped |-> r.popped]
    /\ everSpent' = (everSpent \/ r.popped # << >>)
    /\ timesReturned' =
         [s \in 1..MaxIngest |->
            timesReturned[s]
            + IF r.threw = "none"
              THEN Cardinality({i \in 1..Len(r.inputs) : r.popped[i].seq = s})
              ELSE 0]
    /\ UNCHANGED <<addresses, kp, nIngested, sumIngested, minted>>

MakeAddressKeyedByPublicKey ==
  \E k \in KeyIds :
    LET newkp == keypair(k)
        addr == calcAddress(newkp.public)
    IN
    /\ addresses' = SetProp(addresses, newkp.public, newkp)
    /\ call' = [op |-> "makeAddress", value |-> addr]
    /\ minted' = minted \cup {addr}
    /\ UNCHANGED <<coins, kp, nIngested, sumIngested, everSpent, timesReturned>>

\* wallet.makeAddress()
MakeAddress ==
  \E k \in KeyIds :
    LET newkp == keypair(k)
        addr == calcAddress(newkp.public)
    IN
    /\ addresses' = SetProp(addresses, addr, newkp)
    /\ call' = [op |-> "makeAddress", value |-> addr]
    /\ minted' = minted \cup {addr}
    /\ UNCHANGED <<coins, kp, nIngested, sumIngested, everSpent, timesReturned>>

\* wallet.hasKey(address)
HasKey ==
  \E address \in Addresses :
    /\ call' = [op |-> "hasKey", address |-> address,
                value |-> hasKey(addresses, address)]
    /\ UNCHANGED <<coins, addresses, kp, nIngested, sumIngested, everSpent, minted, timesReturned>>

Next == GetBalance \/ AddUTXO \/ SpendUTXOs \/ MakeAddress \/ HasKey

Spec == Init /\ [][Next]_vars

\* ---- vocabulary of the properties ----
\* The sum of the amounts of a sequence of coins, counted from its last element.
RECURSIVE SumAmounts(_)
SumAmounts(cs) ==
  IF Len(cs) = 0 THEN 0
  ELSE cs[Len(cs)].output.amount + SumAmounts(SubSeq(cs, 1, Len(cs) - 1))

\* The ingestion numbers of the coins of a sequence.
SeqsOf(cs) == {cs[i].seq : i \in 1..Len(cs)}

\* The step is a call of spendUTXOs that returned (did not throw).
SpendReturned == call'.op = "spendUTXOs" /\ call'.threw = "none"

\* Input i of the returned list references the i-th coin the call removed.
InputsReferencePopped ==
  /\ Len(call'.inputs) = Len(call'.popped)
  /\ \A i \in 1..Len(call'.inputs) :
       /\ call'.inputs[i].txID = call'.popped[i].txID
       /\ call'.inputs[i].outputIndex = call'.popped[i].outputIndex

\* The coins the step removed from the wallet are the coins the call popped.
PoppedAreRemoved ==
  /\ SeqsOf(call'.popped) = SeqsOf(coins) \ SeqsOf(coins')
  /\ Cardinality(SeqsOf(call'.popped)) = Len(call'.popped)

\* ---- claims ----

\* C1: every successful addUTXO increases the balance by exactly utxo.amount
\* and the number of held coins by one; while the wallet has never spent, the
\* balance is the sum of all ingested amounts; the balance is always the sum
\* of the amounts of the held coins.
C1_BalanceAdditivity ==
  [][ /\ (call'.op = "addUTXO" /\ call'.threw = "none")
         => /\ Balance(coins') = Balance(coins) + call'.amount
            /\ Len(coins') = Len(coins) + 1
      /\ (~everSpent' => Balance(coins') = sumIngested')
      /\ Balance(coins') = SumAmounts(coins') ]_vars

C1_Witness ==
  /\ call.op = "addUTXO" /\ call.threw = "none"
  /\ ~everSpent /\ nIngested = 3
  /\ coins[1].output.amount = 2 /\ coins[2].output.amount = 3
  /\ Balance(coins) = 6

\* C2: addUTXO for an address that is not in the address book throws the
\* unknown-address error and changes neither the coins, nor the balance, nor
\* the address book.
C2_IngestionPrecondition ==
  [][ (call'.op = "addUTXO" /\ call'.address \notin DOMAIN addresses)
        => /\ call'.threw = "UnknownAddress"
           /\ coins' = coins
           /\ Balance(coins') = Balance(coins)
           /\ addresses' = addresses ]_vars

C2_Witness ==
  /\ call.op = "addUTXO" /\ call.threw = "UnknownAddress"
  /\ call.address \notin DOMAIN addresses
  /\ Len(coins) >= 2 /\ Balance(coins) > 0

\* C3: spendUTXOs(amount) with amount > balance throws the insufficient-funds
\* error and leaves the coins unchanged; with amount <= balance it never
\* throws that error.
C3_SpendUpperBound ==
  [][ call'.op = "spendUTXOs"
        => /\ (call'.amount > Balance(coins)
                 => call'.threw = "InsufficientFunds" /\ coins' = coins)
           /\ (call'.amount <= Balance(coins)
                 => call'.threw # "InsufficientFunds") ]_vars

C3_Witness ==
  /\ call.op = "spendUTXOs" /\ call.threw = "InsufficientFunds"
  /\ Len(coins) >= 2 /\ call.amount = Balance(coins) + 1

\* C4: for a non-negative amount <= balance, the inputs spendUTXOs returns
\* reference the coins it removed, and their amounts sum to at least amount.
C4_MeetOrExceed ==
  [][ (call'.op = "spendUTXOs" /\ call'.amount >= 0
       /\ call'.amount <= Balance(coins))
        => /\ call'.threw = "none"
           /\ InputsReferencePopped
           /\ PoppedAreRemoved
           /\ SumAmounts(call'.popped) >= call'.amount ]_vars

C4_Witness ==
  /\ call.op = "spendUTXOs" /\ call.threw = "none"
  /\ Len(call.inputs) = 2 /\ call.amount = 3
  /\ SumAmounts(call.popped) = 4
  /\ Len(coins) = 1

\* C5: for every successful spendUTXOs(amount) with amount >= 0, the returned
\* change is the total of the consumed coins minus amount.
C5_ChangeIsLeftOver ==
  [][ (SpendReturned /\ call'.amount >= 0)
        => call'.changeAmt = SumAmounts(call'.popped) - call'.amount ]_vars

\* C6: the coins a successful spend consumes are the longest-resident held
\* coins (every consumed coin was ingested before every coin that remains),
\* the inputs list them oldest ingested first, and the coins that remain keep
\* their relative order.
C6_OldestFirst ==
  [][ SpendReturned
        => /\ InputsReferencePopped
           /\ PoppedAreRemoved
           /\ \A i, j \in 1..Len(call'.popped) :
                i < j => call'.popped[i].seq < call'.popped[j].seq
           /\ \A p \in SeqsOf(call'.popped), h \in SeqsOf(coins') : p < h
           /\ LET kept == SeqsOf(coins')
              IN coins' = SelectSeq(coins, LAMBDA c : c.seq \in kept) ]_vars

C6_Witness ==
  /\ call.op = "spendUTXOs" /\ call.threw = "none"
  /\ Len(call.inputs) = 2 /\ Len(coins) = 1
  /\ call.popped[1].seq = 1 /\ call.popped[2].seq = 2 /\ coins[1].seq = 3
  /\ call.inputs[1].txID = "tx1" /\ call.inputs[2].txID = "tx2"

\* The held coin that was ingested first.
OldestHeld(cs) ==
  CHOOSE c \in {cs[i] : i \in 1..Len(cs)} :
    \A d \in {cs[i] : i \in 1..Len(cs)} : c.seq <= d.seq

\* C7: when the oldest held coin's amount equals the requested positive
\* amount, spendUTXOs returns exactly one input, referencing that coin, and
\* change 0; it removes only that coin and the balance decreases by amount.
C7_ExactMatch ==
  [][ (call'.op = "spendUTXOs" /\ Len(coins) > 0 /\ call'.amount > 0
       /\ OldestHeld(coins).output.amount = call'.amount)
        => /\ call'.threw = "none"
           /\ Len(call'.inputs) = 1
           /\ call'.inputs[1].txID = OldestHeld(coins).txID
           /\ call'.inputs[1].outputIndex = OldestHeld(coins).outputIndex
           /\ call'.changeAmt = 0
           /\ SeqsOf(coins) \ SeqsOf(coins') = {OldestHeld(coins).seq}
           /\ Len(coins') = Len(coins) - 1
           /\ Balance(coins') = Balance(coins) - call'.amount
           /\ (Len(coins) = 1 => Balance(coins') = 0) ]_vars

C7_Witness ==
  /\ call.op = "spendUTXOs" /\ call.threw = "none"
  /\ call.amount = 2 /\ Len(call.popped) = 1
  /\ call.popped[1].output.amount = 2 /\ call.popped[1].seq = 1
  /\ call.inputs[1].txID = "tx2" /\ call.inputs[1].outputIndex = 1
  /\ call.changeAmt = 0 /\ Len(coins) = 2

\* C8: when the oldest held coin's amount is greater than the requested
\* positive amount, spendUTXOs returns exactly one input, referencing that
\* coin, and change = coinAmount - amount; the whole coin is removed, so the
\* balance decreases by coinAmount.
C8_Overpayment ==
  [][ (call'.op = "spendUTXOs" /\ Len(coins) > 0 /\ call'.amount > 0
       /\ OldestHeld(coins).output.amount > call'.amount)
        => /\ call'.threw = "none"
           /\ Len(call'.inputs) = 1
           /\ call'.inputs[1].txID = OldestHeld(coins).txID
           /\ call'.inputs[1].outputIndex = OldestHeld(coins).outputIndex
           /\ call'.changeAmt = OldestHeld(coins).output.amount - call'.amount
           /\ SeqsOf(coins) \ SeqsOf(coins') = {OldestHeld(coins).seq}
           /\ Len(coins') = Len(coins) - 1
           /\ Balance(coins') = Balance(coins) - OldestHeld(coins).output.amount
           /\ (Len(coins) = 1 => Balance(coins') = 0) ]_vars

C8_Witness ==
  /\ call.op = "spendUTXOs" /\ call.threw = "none"
  /\ call.amount = 1 /\ Len(call.popped) = 1
  /\ call.popped[1].output.amount = 3 /\ call.popped[1].seq = 1
  /\ call.changeAmt = 2 /\ Len(coins) = 1 /\ Balance(coins) = 2

\* C9: hasKey(a) is true exactly for the addresses an earlier makeAddress
\* returned: true right after makeAddress returns a, true ever after, and
\* false for an address never minted.
C9_AddressLookup ==
  /\ [](/\ \A a \in Addresses : hasKey(addresses, a) <=> a \in minted
        /\ call.op = "hasKey" => (call.value <=> call.address \in minted))
  /\ [][ /\ call'.op = "makeAddress" => hasKey(addresses', call'.value)
         /\ \A a \in Addresses :
              hasKey(addresses, a) => hasKey(addresses', a) ]_vars

C9_Witness ==
  /\ call.op = "hasKey" /\ call.value = TRUE
  /\ call.address \in minted
  /\ everSpent /\ coins = << >>
  /\ ~hasKey(addresses, <<"addr", 9>>)

\* C10: every held coin's address is in the address book, and a spend never
\* looks up a missing key pair: each input carries the public key stored for
\* its coin's address.
C10_CoinKeyInvariant ==
  /\ \A i \in 1..Len(coins) : coins[i].output.address \in DOMAIN addresses
  /\ call.op = "spendUTXOs"
       => /\ call.threw # "TypeError"
          /\ \A i \in 1..Len(call.inputs) :
               /\ call.popped[i].output.address \in DOMAIN addresses
               /\ call.inputs[i].pubKey
                    = addresses[call.popped[i].output.address].public

C10_Witness ==
  /\ call.op = "spendUTXOs" /\ call.threw = "none"
  /\ Len(call.inputs) = 3
  /\ call.inputs[3].pubKey = <<"pub", 1>>

\* C11: every ingested coin is either still held, or was removed by exactly
\* one returned spendUTXOs call that listed it among its inputs; a coin leaves
\* the wallet only in such a call, and a removed coin never comes back.  Coins
\* are told apart by their ingestion number, which also covers the histories
\* in which each (txID, outputIndex) is ingested once.
C11_NoDoubleSpend ==
  /\ [](/\ Cardinality(SeqsOf(coins)) = Len(coins)
        /\ SeqsOf(coins) \subseteq 1..nIngested
        /\ \A s \in 1..nIngested :
             \/ s \in SeqsOf(coins) /\ timesReturned[s] = 0
             \/ s \notin SeqsOf(coins) /\ timesReturned[s] = 1)
  /\ [][ /\ SeqsOf(coins) \ SeqsOf(coins') # {}
            => /\ SpendReturned
               /\ InputsReferencePopped
               /\ SeqsOf(coins) \ SeqsOf(coins') = SeqsOf(call'.popped)
         /\ \A s \in 1..nIngested :
              s \notin SeqsOf(coins) => s \notin SeqsOf(coins') ]_vars

C11_Witness ==
  /\ call.op = "spendUTXOs" /\ call.threw = "none"
  /\ nIngested = 3 /\ Len(coins) = 1 /\ Len(call.popped) = 1
  /\ call.popped[1].seq = 2 /\ call.popped[1].txID = "tx2"
  /\ timesReturned[1] = 1 /\ timesReturned[2] = 1 /\ timesReturned[3] = 0
  /\ coins[1].txID = "tx1"

\* The amounts of the first k coins a call popped, summed.
PoppedPrefixSum(k) == SumAmounts(SubSeq(call'.popped, 1, k))

\* C12 as stated: a returned spend stops only after a coin whose amount is
\* >= the requested amount or when no coin is left, so if coins remain the
\* last input references a coin with amount >= the requested amount.
C12_StopsOnlyOnBigCoinOrEmpty ==
  [][ (SpendReturned /\ call'.amount > 0 /\ coins' # << >>)
        => /\ Len(call'.popped) > 0
           /\ call'.popped[Len(call'.popped)].output.amount >= call'.amount ]_vars

\* C12 amended: a returned spend keeps consuming the oldest coin while the
\* coins consumed so far are each smaller than the requested amount and sum
\* to less than it; it stops after a coin with amount >= the requested
\* amount, when the consumed coins sum to at least the requested amount, or
\* when no coin is left.
C12_LoopExitRule ==
  [][ SpendReturned
        => /\ \A k \in 1..(Len(call'.popped) - 1) :
                /\ call'.popped[k].output.amount < call'.amount
                /\ PoppedPrefixSum(k) < call'.amount
           /\ Len(call'.popped) > 0 => call'.amount > 0
           /\ (call'.amount > 0 /\ coins' # << >>)
                => /\ Len(call'.popped) > 0
                   /\ \/ call'.popped[Len(call'.popped)].output.amount
                           >= call'.amount
                      \/ SumAmounts(call'.popped) >= call'.amount ]_vars

C12_Witness ==
  /\ call.op = "spendUTXOs" /\ call.threw = "none"
  /\ call.amount = 2 /\ Len(call.popped) = 2 /\ Len(coins) = 1
  /\ call.popped[1].output.amount = 1 /\ call.popped[2].output.amount = 1

C14_ZeroSpendIsNoOp ==
  [][ (call'.op = "spendUTXOs" /\ call'.amount = 0)
        => /\ call'.threw = "none"
           /\ call'.inputs = << >>
           /\ call'.changeAmt = 0
           /\ coins' = coins
           /\ Balance(coins') = Balance(coins) ]_vars

C14_Witness ==
  /\ call.op = "spendUTXOs" /\ call.threw = "none" /\ call.amount = 0
  /\ Len(coins) = 2
  /\ coins[2].output.amount = 0 /\ coins[1].output.amount = 3

\* C15: spendUTXOs(balance) returns, with change 0, and leaves the balance
\* at 0 (a coin left held has amount 0).
C15_SpendWholeBalance ==
  [][ (call'.op = "spendUTXOs" /\ call'.amount = Balance(coins))
        => /\ call'.threw = "none"
           /\ call'.changeAmt = 0
           /\ Balance(coins') = 0
           /\ \A i \in 1..Len(coins') : coins'[i].output.amount = 0 ]_vars

C15_Witness ==
  /\ call.op = "spendUTXOs" /\ call.threw = "none"
  /\ call.amount = 5 /\ Len(call.popped) = 2
  /\ call.popped[1].output.amount = 2 /\ call.popped[2].output.amount = 3
  /\ Len(coins) = 1 /\ coins[1].output.amount = 0

\* C16: the selection loop ends after at most as many iterations as coins
\* were held when the call began; every iteration removes exactly one coin
\* and appends exactly one input, so a returned call lists as many inputs as
\* it removed coins.  (Each iteration adds one coin to call.popped.)
C16_LoopBound ==
  [][ (call'.op = "spendUTXOs" /\ call'.amount <= Balance(coins))
        => /\ call'.threw = "none"
           /\ Len(call'.popped) <= Len(coins)
           /\ Len(coins') = Len(coins) - Len(call'.popped)
           /\ Len(call'.inputs) = Len(call'.popped)
           /\ Len(call'.inputs) = Len(coins) - Len(coins') ]_vars

C16_Witness ==
  /\ call.op = "spendUTXOs" /\ call.threw = "none"
  /\ Len(call.inputs) = 3 /\ coins = << >> /\ nIngested = 3
  /\ call.amount = 4 /\ call.changeAmt = 0

\* C17: reading balance and calling hasKey change neither the coins nor the
\* address book; makeAddress leaves the coins and the balance unchanged;
\* addUTXO and spendUTXOs, returning or throwing, leave the address book
\* unchanged, so the keys of spent coins are kept.
C17_FrameConditions ==
  [][ /\ call'.op \in {"balance", "hasKey"}
           => coins' = coins /\ addresses' = addresses
      /\ call'.op = "balance" => call'.value = Balance(coins)
      /\ call'.op = "makeAddress"
           => coins' = coins /\ Balance(coins') = Balance(coins)
      /\ call'.op \in {"addUTXO", "spendUTXOs"}
           => addresses' = addresses
      /\ call'.op = "spendUTXOs"
           => \A i \in 1..Len(call'.popped) :
                hasKey(addresses', call'.popped[i].output.address) ]_vars

C17_Witness ==
  /\ call.op = "spendUTXOs" /\ call.threw = "none"
  /\ Len(call.popped) = 2 /\ coins = << >>
  /\ hasKey(addresses, call.popped[1].output.address)
  /\ GetProp(addresses, call.popped[2].output.address) = keypair(1)

====
